---- MODULE Spec2Model ----
(***************************************************************************)
(* LycheeFS: a read-only FUSE view of a Lychee photo server.               *)
(*                                                                         *)
(* The model follows src/lycheefs.py: the crawl of the remote hierarchy    *)
(* (_fetch_root_structure / _fetch_album_structure) that fills the         *)
(* path -> object dictionary, the quality resolution of LycheeImage, the   *)
(* lazy content buffer, and the four operations getattr, readdir, open     *)
(* and read.  Strings are sequences of one-character strings so that       *)
(* titles, extensions and paths are computed the way the code computes     *)
(* them.  Timestamps and uid/gid of the stat objects are left out.         *)
(***************************************************************************)
EXTENDS Integers, Sequences, FiniteSets, TLC

(***************************************************************************)
(* Bounds of the model.                                                    *)
(***************************************************************************)
\* longest payload the collaborator returns for a byte-fetch
MaxPayload == 2
\* largest size and offset argument of a read
MaxRead == 2
\* cap on the number of successful byte-fetches counted per photo
MaxFetch == 2
\* depth of the recursion of _fetch_album_structure the interpreter allows
MaxDepth == 4

(***************************************************************************)
(* Program constants.                                                      *)
(***************************************************************************)
O_RDONLY == 0
O_WRONLY == 1
O_RDWR == 2
O_CREAT == 64
\* st_size when the JSON has no 'filesize'
DefaultSize == 4096
\* stat.S_IFDIR | 0o755
DirMode == 16877
\* stat.S_IFREG | 0o444
FileMode == 33060
\* id of the virtual root album
RootId == -1

Min(a, b) == IF a < b THEN a ELSE b

\* a value standing for an absent JSON key / Python None
None == "None"

(***************************************************************************)
(* LycheeQuality: the enum, its names by value, and next().                *)
(***************************************************************************)
QualityNames == <<"THUMB", "THUMB2X", "SMALL", "SMALL2X", "MEDIUM", "MEDIUM2X", "FULL">>

FULL == 6

Tiers == 0..FULL

\* whether LycheeQuality[name] exists (it raises KeyError otherwise)
IsQualityName(name) == \E v \in Tiers : QualityNames[v + 1] = name

\* LycheeQuality[name]: the member of that name
QualityByName(name) == CHOOSE v \in Tiers : QualityNames[v + 1] = name

\* a next() that skips a tier
next_skip(value) == IF value >= 5 THEN FULL ELSE value + 2

\* LycheeQuality.next
next(value) == IF value = 6 THEN value ELSE value + 1

\* the while loop of the quality setter
RECURSIVE quality_loop(_, _)
quality_loop(quality, res_avail) ==
    IF quality # FULL /\ quality \notin res_avail
    THEN quality_loop(next(quality), res_avail)
    ELSE quality

\* LycheeImage.quality setter: value is the requested name, sizeVariants the
\* set of tiers whose variant is not None; the result is the stored name, or
\* "KeyError" when value names no tier
quality_setter(value, sizeVariants) ==
    IF ~IsQualityName(value) THEN "KeyError"
    ELSE LET res_avail == {res \in Tiers : res \in sizeVariants}
             quality == QualityByName(value)
         IN QualityNames[quality_loop(quality, res_avail) + 1]

(***************************************************************************)
(* Strings and paths.                                                      *)
(***************************************************************************)
SEP == "/"

\* str.split(sep)
RECURSIVE split(_, _)
split(s, sep) ==
    IF \E i \in 1..Len(s) : s[i] = sep
    THEN LET i == CHOOSE k \in 1..Len(s) : s[k] = sep /\ \A j \in 1..(k - 1) : s[j] # sep
         IN <<SubSeq(s, 1, i - 1)>> \o split(SubSeq(s, i + 1, Len(s)), sep)
    ELSE <<s>>

\* sep.join(comps)
RECURSIVE joinstr(_, _)
joinstr(comps, sep) ==
    IF Len(comps) = 0 THEN <<>>
    ELSE IF Len(comps) = 1 THEN comps[1]
    ELSE comps[1] \o <<sep>> \o joinstr(Tail(comps), sep)

DOT == <<".">>
DOTDOT == <<".", ".">>

\* the component loop of posixpath.normpath
RECURSIVE normcomps(_, _, _)
normcomps(comps, new_comps, initial_slashes) ==
    IF Len(comps) = 0 THEN new_comps
    ELSE LET comp == comps[1]
             rest == Tail(comps)
         IN IF comp = <<>> \/ comp = DOT
            THEN normcomps(rest, new_comps, initial_slashes)
            ELSE IF comp # DOTDOT
                    \/ (initial_slashes = 0 /\ Len(new_comps) = 0)
                    \/ (Len(new_comps) > 0 /\ new_comps[Len(new_comps)] = DOTDOT)
            THEN normcomps(rest, Append(new_comps, comp), initial_slashes)
            ELSE IF Len(new_comps) > 0
            THEN normcomps(rest, SubSeq(new_comps, 1, Len(new_comps) - 1), initial_slashes)
            ELSE normcomps(rest, new_comps, initial_slashes)

StartsWith(s, n) == Len(s) >= n /\ \A i \in 1..n : s[i] = SEP

\* os.path.normpath
normpath(path) ==
    IF Len(path) = 0 THEN DOT
    ELSE LET initial_slashes ==
                 IF ~StartsWith(path, 1) THEN 0
                 ELSE IF StartsWith(path, 2) /\ ~StartsWith(path, 3) THEN 2 ELSE 1
             body == joinstr(normcomps(split(path, SEP), <<>>, initial_slashes), SEP)
             full == [i \in 1..initial_slashes |-> SEP] \o body
         IN IF Len(full) = 0 THEN DOT ELSE full

\* os.path.join(a, b)
pathjoin(a, b) ==
    IF StartsWith(b, 1) THEN b
    ELSE IF Len(a) = 0 \/ a[Len(a)] = SEP THEN a \o b
    ELSE a \o <<SEP>> \o b

\* LycheeFS._join_path
join_path(base, filename) == pathjoin(normpath(base), normpath(filename))

ROOT_PATH == <<"/">>

\* a path no title of the servers below produces
MissingPath == <<"/", "m">>

(***************************************************************************)
(* The collaborator: what the Lychee server answers.  An element's JSON is *)
(* [id, title, type, filesize, sizeVariants]; hasType and hasFilesize say  *)
(* whether the key is present, sizeVariants is the set of tiers whose      *)
(* variant is not None.  detail[id] is the Album::get answer for that id.  *)
(***************************************************************************)
AlbumJson(id, title) ==
    [id |-> id, title |-> title, type |-> <<>>, hasType |-> FALSE,
     filesize |-> 0, hasFilesize |-> FALSE, sizeVariants |-> {}]

PhotoJson(id, title, type, hasType, filesize, hasFilesize, variants) ==
    [id |-> id, title |-> title, type |-> type, hasType |-> hasType,
     filesize |-> filesize, hasFilesize |-> hasFilesize, sizeVariants |-> variants]

Detail(albums, photos) == [albums |-> albums, photos |-> photos]

NoDetail == Detail(<<>>, <<>>)

MimeJ == <<"i", "/", "j">>

\* photo 10: "p" of type i/j, two bytes long, thumb and medium generated
Photo10 == PhotoJson(10, <<"p">>, MimeJ, TRUE, 2, TRUE, {0, 4})
\* photo 11: "q" with no filesize key and no variant
Photo11 == PhotoJson(11, <<"q">>, MimeJ, TRUE, 0, FALSE, {})
\* photo 12: "p" with no type key
Photo12 == PhotoJson(12, <<"p">>, <<>>, FALSE, 2, TRUE, {2})
\* photo 13: titled "/a", an absolute path
Photo13 == PhotoJson(13, <<"/", "a">>, <<>>, FALSE, 2, TRUE, {2})

\* a curated, an ordinary and a shared album; a sub-album; a photo
ServerPlain ==
    [smartalbums |-> <<AlbumJson(5, <<"s">>)>>,
     albums |-> <<AlbumJson(1, <<"a">>)>>,
     shared_albums |-> <<AlbumJson(2, <<"b">>)>>,
     detail |-> (1 :> Detail(<<AlbumJson(3, <<"b">>)>>, <<Photo10>>)
                 @@ 2 :> NoDetail
                 @@ 3 :> NoDetail
                 @@ 5 :> NoDetail)]

\* two top-level albums of the same title
ServerDupAlbums ==
    [smartalbums |-> <<>>,
     albums |-> <<AlbumJson(1, <<"a">>), AlbumJson(2, <<"a">>)>>,
     shared_albums |-> <<>>,
     detail |-> (1 :> Detail(<<>>, <<Photo10>>) @@ 2 :> NoDetail)]

\* a sub-album and a photo of the same title in one album
ServerAlbumPhoto ==
    [smartalbums |-> <<>>,
     albums |-> <<AlbumJson(1, <<"a">>)>>,
     shared_albums |-> <<>>,
     detail |-> (1 :> Detail(<<AlbumJson(3, <<"p">>)>>, <<Photo12>>) @@ 3 :> NoDetail)]

\* an album whose title holds a path separator
ServerSeparator ==
    [smartalbums |-> <<>>,
     albums |-> <<AlbumJson(1, <<"a", "/", "b">>)>>,
     shared_albums |-> <<>>,
     detail |-> (1 :> Detail(<<>>, <<Photo11>>))]

\* a photo whose title is the absolute path of its own album
ServerAbsTitle ==
    [smartalbums |-> <<>>,
     albums |-> <<AlbumJson(1, <<"a">>)>>,
     shared_albums |-> <<>>,
     detail |-> (1 :> Detail(<<>>, <<Photo13>>))]

\* no top-level album at all
ServerEmpty ==
    [smartalbums |-> <<>>, albums |-> <<>>, shared_albums |-> <<>>,
     detail |-> (1 :> NoDetail)]

\* an album that reports itself as its sub-album
ServerCycle ==
    [smartalbums |-> <<>>,
     albums |-> <<AlbumJson(1, <<"a">>)>>,
     shared_albums |-> <<>>,
     detail |-> (1 :> Detail(<<AlbumJson(1, <<"a">>)>>, <<>>))]

\* a top-level album whose title is the root path
ServerRootTitle ==
    [smartalbums |-> <<>>,
     albums |-> <<AlbumJson(1, <<"/">>)>>,
     shared_albums |-> <<>>,
     detail |-> (1 :> NoDetail)]

Servers ==
    {ServerPlain, ServerDupAlbums, ServerAlbumPhoto, ServerSeparator,
     ServerAbsTitle, ServerEmpty, ServerCycle, ServerRootTitle}

PhotoIds == {10, 11, 12, 13}

\* the -q option: the default of _DEFAULT_OPTIONS and a name of no tier
QualityOptions == {"SMALL", "BOGUS"}

Bytes == {0, 1}

\* the payloads get_photos_archive can return
Payloads == UNION {[1..n -> Bytes] : n \in 0..MaxPayload}

\* what a byte-fetch can do: raise, or return a payload
FetchOutcomes ==
    {[ok |-> FALSE, payload |-> <<>>]} \cup {[ok |-> TRUE, payload |-> b] : b \in Payloads}

(***************************************************************************)
(* LycheeElement, LycheeAlbum, LycheeImage.  One record shape serves both  *)
(* classes: an album has quality None and never uses content, a photo has  *)
(* no children_path.                                                       *)
(***************************************************************************)
\* LycheeElement.title
title(json_info) ==
    IF json_info.hasType
    THEN LET parts == split(json_info.type, SEP)
         IN json_info.title \o <<".">> \o parts[Len(parts)]
    ELSE json_info.title

\* st_size of the LycheeElement.stats setter
st_size(value) == IF value.hasFilesize THEN value.filesize ELSE DefaultSize

\* LycheeAlbum.__init__
LycheeAlbum(json_info) ==
    [kind |-> "album", id |-> json_info.id, title |-> title(json_info),
     children_path |-> <<>>, quality |-> None, content |-> <<>>,
     st_size |-> st_size(json_info), st_mode |-> DirMode]

\* a constructor that downloads the image at once
LycheeImage_eager(json_info, quality) ==
    [kind |-> "photo", id |-> json_info.id, title |-> title(json_info),
     children_path |-> <<>>,
     quality |-> quality_setter(quality, json_info.sizeVariants),
     content |-> <<0>>,
     st_size |-> st_size(json_info), st_mode |-> FileMode]

\* LycheeImage.__init__
LycheeImage(json_info, quality) ==
    [kind |-> "photo", id |-> json_info.id, title |-> title(json_info),
     children_path |-> <<>>,
     quality |-> quality_setter(quality, json_info.sizeVariants),
     content |-> <<>>,
     st_size |-> st_size(json_info), st_mode |-> FileMode]

VARIABLES
    srv,          \* the server's hierarchy (never changes: no refresh)
    quality,      \* self.quality, the -q option
    phase,        \* "init", "crawl", "operational" or "aborted"
    err,          \* the exception that aborted the crawl, or None
    stack,        \* the active calls of _fetch_album_structure, innermost last
    objects,      \* self.objects: path -> object
    albumFetches, \* ids passed to client.get_album, in order
    fetchCount,   \* photo id -> successful get_photos_archive calls
    last,         \* the last operation served and what its caller got
    qreq,         \* quality resolution on its own: requested name
    qavail,       \* quality resolution on its own: available tiers
    qres,         \* quality resolution on its own: stored name, or None
    threads,      \* concurrent reads: what each dispatch thread is doing
    requests      \* concurrent reads: photo id -> get_photos_archive calls issued

vars == <<srv, quality, phase, err, stack, objects, albumFetches, fetchCount,
          last, qreq, qavail, qres, threads, requests>>

qvars == <<qreq, qavail, qres>>

cvars == <<threads, requests>>

\* the threads the FUSE library dispatches operations on
Threads == {1, 2}

\* a thread that serves no read; got holds what get_photos_archive returned
\* to this thread, once it has
Idle ==
    [pc |-> "idle", path |-> <<>>, lo |-> 0, hi |-> 0, res |-> "none", data |-> <<>>,
     got |-> <<>>]

\* a store that keeps the object already at k
Put_first_wins(f, k, v) ==
    IF k \in DOMAIN f THEN f
    ELSE [x \in (DOMAIN f) \cup {k} |-> IF x = k THEN v ELSE f[x]]

\* dict[k] = v
Put(f, k, v) == [x \in (DOMAIN f) \cup {k} |-> IF x = k THEN v ELSE f[x]]

NoOp ==
    [op |-> "none", path |-> <<>>, arg1 |-> 0, arg2 |-> 0, res |-> "none",
     data |-> <<>>, ret |-> "none", fetched |-> "none"]

NoObjects == [x \in {} |-> 0]

Init ==
    /\ srv \in Servers
    /\ quality \in QualityOptions
    /\ phase = "init"
    /\ err = None
    /\ stack = <<>>
    /\ objects = NoObjects
    /\ albumFetches = <<>>
    /\ fetchCount = [i \in PhotoIds |-> 0]
    /\ last = NoOp
    /\ qreq = None
    /\ qavail = {}
    /\ qres = None
    /\ threads = [t \in Threads |-> Idle]
    /\ requests = [i \in PhotoIds |-> 0]

(***************************************************************************)
(* The crawl: _fetch_root_structure and the recursion of                   *)
(* _fetch_album_structure, one collaborator call or one loop iteration per *)
(* step.  A frame of stack is one active call: its album object, its path, *)
(* its root_albums argument, and the lists still to be walked.             *)
(***************************************************************************)
Frame(album, album_path, root_albums) ==
    [album |-> album, album_path |-> album_path, root_albums |-> root_albums,
     pc |-> "start", subalbums |-> <<>>, photos |-> <<>>]

Top == stack[Len(stack)]

SetTop(f) == [stack EXCEPT ![Len(stack)] = f]

\* a constructor that swallows the exception and mounts what was crawled
Abort_partial(e) ==
    /\ phase' = "operational"
    /\ err' = e
    /\ stack' = <<>>

\* an exception leaves __init__: main never reaches fuse.main()
Abort(e) ==
    /\ phase' = "aborted"
    /\ err' = e
    /\ stack' = <<>>

\* the fake JSON of the virtual root album
fake_json == AlbumJson(RootId, ROOT_PATH)

\* _fetch_root_structure: get_albums answers; the root call is entered
FetchRootStructure ==
    /\ phase = "init"
    /\ LET albums == srv.smartalbums \o srv.albums \o srv.shared_albums
           root_album == LycheeAlbum(fake_json)
       IN stack' = <<Frame(root_album, ROOT_PATH, albums)>>
    /\ phase' = "crawl"
    /\ UNCHANGED <<srv, quality, err, objects, albumFetches, fetchCount, last, qvars, cvars>>

\* _fetch_root_structure: get_albums raises
FetchRootFails ==
    /\ phase = "init"
    /\ Abort("TransportError")
    /\ UNCHANGED <<srv, quality, objects, albumFetches, fetchCount, last, qvars, cvars>>

\* the JSON get_album returns for an id
album_json(id) == IF id \in DOMAIN srv.detail THEN srv.detail[id] ELSE NoDetail

\* _fetch_album_structure, lines 280-286, root_albums given: no call is made
AlbumStartKnown ==
    /\ phase = "crawl"
    /\ Top.pc = "start"
    /\ Top.root_albums # <<>>
    /\ stack' = SetTop([Top EXCEPT !.pc = "loop", !.subalbums = Top.root_albums,
                                   !.photos = <<>>])
    /\ UNCHANGED <<srv, quality, phase, err, objects, albumFetches, fetchCount, last, qvars, cvars>>

\* _fetch_album_structure, lines 280-286, root_albums == []: get_album answers
AlbumStartFetch ==
    /\ phase = "crawl"
    /\ Top.pc = "start"
    /\ Top.root_albums = <<>>
    /\ albumFetches' = Append(albumFetches, Top.album.id)
    /\ LET json == album_json(Top.album.id)
       IN stack' = SetTop([Top EXCEPT !.pc = "loop", !.subalbums = json.albums,
                                      !.photos = json.photos])
    /\ UNCHANGED <<srv, quality, phase, err, objects, fetchCount, last, qvars, cvars>>

\* _fetch_album_structure, line 281: get_album raises
AlbumFetchFails ==
    /\ phase = "crawl"
    /\ Top.pc = "start"
    /\ Top.root_albums = <<>>
    /\ albumFetches' = Append(albumFetches, Top.album.id)
    /\ Abort("TransportError")
    /\ UNCHANGED <<srv, quality, objects, fetchCount, last, qvars, cvars>>

\* one iteration of the loop over subalbums, lines 287-294
SubalbumStep ==
    /\ phase = "crawl"
    /\ Top.pc = "loop"
    /\ Top.subalbums # <<>>
    /\ Len(stack) < MaxDepth
    /\ LET e == Head(Top.subalbums)
           subalbum == LycheeAlbum(e)
           subalbum_path == join_path(Top.album_path, subalbum.title)
           album == [Top.album EXCEPT !.children_path = Append(@, subalbum_path)]
       IN stack' = Append(SetTop([Top EXCEPT !.album = album, !.subalbums = Tail(@)]),
                          Frame(subalbum, subalbum_path, <<>>))
    /\ UNCHANGED <<srv, quality, phase, err, objects, albumFetches, fetchCount, last, qvars, cvars>>

\* the recursion of line 294 exceeds what the interpreter allows
RecursionLimit ==
    /\ phase = "crawl"
    /\ Top.pc = "loop"
    /\ Top.subalbums # <<>>
    /\ Len(stack) >= MaxDepth
    /\ Abort("RecursionError")
    /\ UNCHANGED <<srv, quality, objects, albumFetches, fetchCount, last, qvars, cvars>>

\* one iteration of the loop over photos, lines 296-300
PhotoStep ==
    /\ phase = "crawl"
    /\ Top.pc = "loop"
    /\ Top.subalbums = <<>>
    /\ Top.photos # <<>>
    /\ IsQualityName(quality)
    /\ LET e == Head(Top.photos)
           photo == LycheeImage(e, quality)
           photo_path == join_path(Top.album_path, photo.title)
           album == [Top.album EXCEPT !.children_path = Append(@, photo_path)]
       IN /\ stack' = SetTop([Top EXCEPT !.album = album, !.photos = Tail(@)])
          /\ objects' = Put(objects, photo_path, photo)
    /\ UNCHANGED <<srv, quality, phase, err, albumFetches, fetchCount, last, qvars, cvars>>

\* line 297: the quality setter raises KeyError on LycheeQuality[value]
PhotoQualityError ==
    /\ phase = "crawl"
    /\ Top.pc = "loop"
    /\ Top.subalbums = <<>>
    /\ Top.photos # <<>>
    /\ ~IsQualityName(quality)
    /\ Abort("KeyError")
    /\ UNCHANGED <<srv, quality, objects, albumFetches, fetchCount, last, qvars, cvars>>

\* line 302: the album is stored and the call returns
AlbumFinish ==
    /\ phase = "crawl"
    /\ Top.pc = "loop"
    /\ Top.subalbums = <<>>
    /\ Top.photos = <<>>
    /\ objects' = Put(objects, Top.album_path, Top.album)
    /\ stack' = SubSeq(stack, 1, Len(stack) - 1)
    /\ phase' = IF Len(stack) = 1 THEN "operational" ELSE "crawl"
    /\ UNCHANGED <<srv, quality, err, albumFetches, fetchCount, last, qvars, cvars>>

Crawl ==
    \/ FetchRootStructure
    \/ FetchRootFails
    \/ AlbumStartKnown
    \/ AlbumStartFetch
    \/ AlbumFetchFails
    \/ SubalbumStep
    \/ RecursionLimit
    \/ PhotoStep
    \/ PhotoQualityError
    \/ AlbumFinish

(***************************************************************************)
(* The operations, served once the crawl is over (fuse.main() runs after   *)
(* __init__ returns).  last records the operation, its arguments and what  *)
(* its caller received.                                                    *)
(***************************************************************************)
\* a & b on naturals
RECURSIVE BitAnd(_, _)
BitAnd(a, b) ==
    IF a = 0 \/ b = 0 THEN 0
    ELSE (a % 2) * (b % 2) + 2 * BitAnd(a \div 2, b \div 2)

\* a | b on naturals
RECURSIVE BitOr(_, _)
BitOr(a, b) ==
    IF a = 0 THEN b
    ELSE IF b = 0 THEN a
    ELSE (IF a % 2 = 1 \/ b % 2 = 1 THEN 1 ELSE 0) + 2 * BitOr(a \div 2, b \div 2)

\* the open flags tried: the three access modes, alone and with other bits
OpenFlags ==
    {O_RDONLY, O_WRONLY, O_RDWR, BitOr(O_WRONLY, O_CREAT), BitOr(O_RDWR, O_CREAT),
     BitOr(O_RDONLY, O_CREAT)}

\* the paths the host asks for: every indexed path and one that is absent
Paths == (DOMAIN objects) \cup {MissingPath}

Result(op, path, arg1, arg2, res, data, ret, fetched) ==
    [op |-> op, path |-> path, arg1 |-> arg1, arg2 |-> arg2, res |-> res,
     data |-> data, ret |-> ret, fetched |-> fetched]

\* LycheeFS.getattr: the stat object, or ENOENT
getattr(path) ==
    IF path \in DOMAIN objects
    THEN [res |-> "Ok", data |-> <<objects[path].st_size, objects[path].st_mode>>]
    ELSE [res |-> "ENOENT", data |-> <<>>]

Getattr(path) ==
    /\ phase = "operational"
    /\ LET r == getattr(path)
       IN last' = Result("getattr", path, 0, 0, r.res, r.data, "none", "none")
    /\ UNCHANGED <<srv, quality, phase, err, stack, objects, albumFetches, fetchCount, qvars, cvars>>

\* an access mask that forgets O_RDWR
accmode_wronly == BitOr(O_RDONLY, O_WRONLY)

\* line 141
accmode == BitOr(BitOr(O_RDONLY, O_WRONLY), O_RDWR)

\* LycheeFS.open: None ("Ok") or the errno
open(path, flags) ==
    IF path \notin DOMAIN objects THEN "ENOENT"
    ELSE IF BitAnd(flags, accmode) # 0 THEN "EACCES"
    ELSE IF objects[path].kind = "album" /\ BitAnd(flags, BitOr(O_WRONLY, O_RDWR)) # 0
    THEN "EISDIR"
    ELSE "Ok"

Open(path, flags) ==
    /\ phase = "operational"
    /\ last' = Result("open", path, flags, 0, open(path, flags), <<>>, "none", "none")
    /\ UNCHANGED <<srv, quality, phase, err, stack, objects, albumFetches, fetchCount, qvars, cvars>>

S_IFDIR == "S_IFDIR"
S_IFREG == "S_IFREG"

\* the entries the loop of lines 127-130 yields
RECURSIVE direntries(_)
direntries(children_path) ==
    IF children_path = <<>> THEN <<>>
    ELSE LET child == objects[Head(children_path)]
             type == IF child.kind = "album" THEN S_IFDIR ELSE S_IFREG
         IN <<[name |-> child.title, type |-> type]>> \o direntries(Tail(children_path))

\* LycheeFS.readdir.  The function holds a yield, so a call builds a
\* generator: yielded are the entries it produces when iterated, returned is
\* the value of its return statement (carried by StopIteration).
readdir(path) ==
    IF path \notin DOMAIN objects
    THEN [yielded |-> <<>>, returned |-> "ENOENT"]
    ELSE IF objects[path].kind # "album"
    THEN [yielded |-> <<>>, returned |-> "ENOTDIR"]
    ELSE [yielded |-> direntries(objects[path].children_path), returned |-> "none"]

\* what the caller of readdir gets by iterating the generator: the entries;
\* the return value of a generator is not part of the iteration
Readdir(path) ==
    /\ phase = "operational"
    /\ LET gen == readdir(path)
       IN last' = Result("readdir", path, 0, 0, "Ok", gen.yielded, gen.returned, "none")
    /\ UNCHANGED <<srv, quality, phase, err, stack, objects, albumFetches, fetchCount, qvars, cvars>>

\* bytes(content[lo:hi]) with Python's clamping of slice bounds
slice(content, lo, hi) ==
    LET stop == Min(hi, Len(content))
    IN IF lo >= stop THEN <<>> ELSE SubSeq(content, lo + 1, stop)

\* a fetch that stores a marker when the collaborator raises
fetch_content_marks(photo, outcome) ==
    IF outcome.ok THEN [photo EXCEPT !.content = outcome.payload]
    ELSE [photo EXCEPT !.content = <<0>>]

\* a fetch that also revises the reported size to the payload's length
fetch_content_resizes(photo, outcome) ==
    IF outcome.ok
    THEN [photo EXCEPT !.content = outcome.payload, !.st_size = Len(outcome.payload)]
    ELSE photo

\* a fetch that writes what it received after what the buffer already holds
fetch_content_appends(photo, outcome) ==
    IF outcome.ok THEN [photo EXCEPT !.content = @ \o outcome.payload] ELSE photo

\* LycheeImage._fetch_content: the assignment happens only if the call returns
fetch_content(photo, outcome) ==
    IF outcome.ok THEN [photo EXCEPT !.content = outcome.payload] ELSE photo

\* LycheeImage.__getitem__ for the slice lo:hi; outcome is what the
\* collaborator does if asked
getitem(photo, lo, hi, outcome) ==
    IF Len(photo.content) = 0
    THEN LET fetched == fetch_content(photo, outcome)
         IN IF outcome.ok
            THEN [photo |-> fetched, res |-> "Ok", fetched |-> "ok",
                  data |-> slice(fetched.content, lo, hi)]
            ELSE [photo |-> fetched, res |-> "TransportError", fetched |-> "fail",
                  data |-> <<>>]
    ELSE [photo |-> photo, res |-> "Ok", fetched |-> "none",
          data |-> slice(photo.content, lo, hi)]

\* LycheeImage.__len__
len(photo) == photo.st_size

\* LycheeFS.read
read(path, size, offset, outcome) ==
    LET photo == objects[path]
    IN IF photo.kind = "album"
       THEN [photo |-> photo, res |-> "EISDIR", fetched |-> "none", data |-> <<>>]
       ELSE IF offset >= len(photo)
       THEN [photo |-> photo, res |-> "EOVERFLOW", fetched |-> "none", data |-> <<>>]
       ELSE LET size2 == IF offset + size >= len(photo) THEN len(photo) - offset ELSE size
            IN getitem(photo, offset, offset + size2, outcome)

\* what the collaborator can do during a read of this object: it is asked
\* only when the buffer is empty
Collaborator(photo) ==
    IF photo.kind = "photo" /\ Len(photo.content) = 0 THEN FetchOutcomes ELSE {[ok |-> FALSE, payload |-> <<>>]}

\* read is only called on a path that open accepted (lines 158-160)
Read(path, size, offset) ==
    /\ phase = "operational"
    /\ path \in DOMAIN objects
    /\ \E outcome \in Collaborator(objects[path]) :
          LET r == read(path, size, offset, outcome)
              id == objects[path].id
          IN /\ r.fetched = "ok" => fetchCount[id] < MaxFetch
             /\ objects' = [objects EXCEPT ![path] = r.photo]
             /\ fetchCount' = IF r.fetched = "ok"
                              THEN [fetchCount EXCEPT ![id] = @ + 1]
                              ELSE fetchCount
             /\ last' = Result("read", path, size, offset, r.res, r.data, "none", r.fetched)
    /\ UNCHANGED <<srv, quality, phase, err, stack, albumFetches, qvars, cvars>>

Serve ==
    \/ \E path \in Paths : Getattr(path)
    \/ \E path \in Paths : Readdir(path)
    \/ \E path \in Paths, flags \in OpenFlags : Open(path, flags)
    \/ \E path \in Paths, size \in 0..MaxRead, offset \in 0..MaxRead : Read(path, size, offset)

Next == Crawl \/ Serve

Spec == Init /\ [][Next]_vars

(***************************************************************************)
(* Quality resolution on its own: every requested name and every set of    *)
(* available tiers, resolved by the quality setter.                        *)
(***************************************************************************)
InitQuality ==
    /\ srv = ServerEmpty
    /\ quality = "SMALL"
    /\ phase = "quality"
    /\ err = None
    /\ stack = <<>>
    /\ objects = NoObjects
    /\ albumFetches = <<>>
    /\ fetchCount = [i \in PhotoIds |-> 0]
    /\ last = NoOp
    /\ qreq \in {QualityNames[i] : i \in 1..Len(QualityNames)}
    /\ qavail \in SUBSET Tiers
    /\ qres = None
    /\ threads = [t \in Threads |-> Idle]
    /\ requests = [i \in PhotoIds |-> 0]

SetQuality ==
    /\ phase = "quality"
    /\ qres = None
    /\ qres' = quality_setter(qreq, qavail)
    /\ UNCHANGED <<srv, quality, phase, err, stack, objects, albumFetches, fetchCount,
                   last, qreq, qavail, cvars>>

NextQuality == SetQuality

SpecQuality == InitQuality /\ [][NextQuality]_vars

(***************************************************************************)
(* Concurrent reads.  The FUSE library dispatches operations on several    *)
(* threads and the code takes no lock (line 148), so a read is a sequence  *)
(* of steps that other reads interleave with: the range checks and the     *)
(* test of line 444, the call of get_photos_archive, its return and the    *)
(* assignment of line 407, and the slice of line 447.                      *)
(***************************************************************************)
\* the servers the concurrent reads run against
ConcServers == {ServerPlain, ServerCycle}

InitConc ==
    /\ Init
    /\ srv \in ConcServers

SetThread(t, r) == threads' = [threads EXCEPT ![t] = r]

\* LycheeFS.read up to the test of line 444: the range checks, the clamp, and
\* whether the buffer is seen empty.  Each thread serves one read: a pair of
\* reads has every interleaving the steps of two reads can have.
CBegin(t, path, size, offset) ==
    /\ phase = "operational"
    /\ threads[t].pc = "idle"
    /\ path \in DOMAIN objects
    /\ LET photo == objects[path]
           size2 == IF offset + size >= len(photo) THEN len(photo) - offset ELSE size
           started == [pc |-> IF Len(photo.content) = 0 THEN "call" ELSE "slice",
                       path |-> path, lo |-> offset, hi |-> offset + size2,
                       res |-> "none", data |-> <<>>, got |-> <<>>]
       IN IF photo.kind = "album"
          THEN SetThread(t, [Idle EXCEPT !.pc = "done", !.path = path, !.res = "EISDIR"])
          ELSE IF offset >= len(photo)
          THEN SetThread(t, [Idle EXCEPT !.pc = "done", !.path = path, !.res = "EOVERFLOW"])
          ELSE SetThread(t, started)
    /\ UNCHANGED <<srv, quality, phase, err, stack, objects, albumFetches, fetchCount,
                   last, qvars, requests>>

\* a call that looks at the buffer again and skips the fetch when another
\* read has filled it
CFetchCall_rechecks(t) ==
    /\ phase = "operational"
    /\ threads[t].pc = "call"
    /\ LET id == objects[threads[t].path].id
       IN IF Len(objects[threads[t].path].content) = 0
          THEN /\ requests[id] < MaxFetch
               /\ requests' = [requests EXCEPT ![id] = @ + 1]
               /\ SetThread(t, [threads[t] EXCEPT !.pc = "waiting"])
          ELSE /\ requests' = requests
               /\ SetThread(t, [threads[t] EXCEPT !.pc = "slice"])
    /\ UNCHANGED <<srv, quality, phase, err, stack, objects, albumFetches, fetchCount,
                   last, qvars>>

\* line 445 and the call of line 407: the request goes to the collaborator
CFetchCall(t) ==
    /\ phase = "operational"
    /\ threads[t].pc = "call"
    /\ LET id == objects[threads[t].path].id
       IN /\ requests[id] < MaxFetch
          /\ requests' = [requests EXCEPT ![id] = @ + 1]
    /\ SetThread(t, [threads[t] EXCEPT !.pc = "waiting"])
    /\ UNCHANGED <<srv, quality, phase, err, stack, objects, albumFetches, fetchCount,
                   last, qvars>>

\* line 407: get_photos_archive returns and the buffer is assigned, or it raises
CFetchReturn(t) ==
    /\ phase = "operational"
    /\ threads[t].pc = "waiting"
    /\ \E outcome \in FetchOutcomes :
          LET path == threads[t].path
              id == objects[path].id
          IN /\ objects' = [objects EXCEPT ![path] = fetch_content(@, outcome)]
             /\ fetchCount' = IF outcome.ok THEN [fetchCount EXCEPT ![id] = @ + 1]
                              ELSE fetchCount
             /\ IF outcome.ok
                THEN SetThread(t, [threads[t] EXCEPT !.pc = "slice",
                                                     !.got = <<outcome.payload>>])
                ELSE SetThread(t, [threads[t] EXCEPT !.pc = "done",
                                                     !.res = "TransportError"])
    /\ UNCHANGED <<srv, quality, phase, err, stack, albumFetches, last, qvars, requests>>

\* line 447: the slice of whatever the buffer holds now
CSlice(t) ==
    /\ phase = "operational"
    /\ threads[t].pc = "slice"
    /\ SetThread(t, [threads[t] EXCEPT
           !.pc = "done", !.res = "Ok",
           !.data = slice(objects[threads[t].path].content, threads[t].lo, threads[t].hi)])
    /\ UNCHANGED <<srv, quality, phase, err, stack, objects, albumFetches, fetchCount,
                   last, qvars, requests>>

ServeConc ==
    \/ \E t \in Threads, path \in DOMAIN objects, size \in 0..MaxRead, offset \in 0..MaxRead :
          CBegin(t, path, size, offset)
    \/ \E t \in Threads : CFetchCall(t)
    \/ \E t \in Threads : CFetchReturn(t)
    \/ \E t \in Threads : CSlice(t)

NextConc == Crawl \/ ServeConc

SpecConc == InitConc /\ [][NextConc]_vars

(***************************************************************************)
(* Properties.                                                             *)
(***************************************************************************)
Operational == phase = "operational"

LastIs(op) == Operational /\ last.op = op

LastOnPhoto(op) ==
    /\ LastIs(op)
    /\ last.path \in DOMAIN objects
    /\ objects[last.path].kind = "photo"

LastOnAlbum(op) ==
    /\ LastIs(op)
    /\ last.path \in DOMAIN objects
    /\ objects[last.path].kind = "album"

\* the least element of a non-empty set of tiers
Least(S) == CHOOSE t \in S : \A u \in S : t <= u

\* C1: for every requested tier q and every set A of available tiers, the
\* stored tier is the smallest tier >= q in A below FULL, or FULL when there
\* is none; it is never lower than q, and FULL resolves to FULL.
C1_QualityResolution ==
    qres # None =>
        /\ IsQualityName(qres)
        /\ LET q == QualityByName(qreq)
               r == QualityByName(qres)
               candidates == {t \in qavail : t >= q /\ t < FULL}
           IN /\ r = IF candidates = {} THEN FULL ELSE Least(candidates)
              /\ r >= q
              /\ (q = FULL => r = FULL)

\* C1 witness: MEDIUM requested with only SMALL and FULL available gives FULL
C1_Witness == qreq = "MEDIUM" /\ qavail = {2, 6} /\ qres = "FULL"

\* C2: the number of successful byte-fetches of a photo never exceeds one,
\* whatever payload the collaborator returned.
C2_AtMostOneFetch == \A i \in PhotoIds : fetchCount[i] <= 1

\* C3: a read of a photo whose offset is at or beyond the length of the
\* photo's content fails with RangeError (EOVERFLOW); it never returns bytes.
C3_RangeErrorBeyondContent ==
    (/\ LastOnPhoto("read")
     /\ last.res # "TransportError"
     /\ last.arg2 >= Len(objects[last.path].content))
        => last.res = "EOVERFLOW"

\* the size getattr reports for a path
ReportedSize(path) == getattr(path).data[1]

\* C4: a read of a photo at an offset below the size L that getattr reports
\* returns exactly min(size, L - offset) bytes and no error.
C4_ReadLength ==
    (/\ LastOnPhoto("read")
     /\ last.res # "TransportError"
     /\ last.arg2 < ReportedSize(last.path))
        => /\ last.res = "Ok"
           /\ Len(last.data) = Min(last.arg1, ReportedSize(last.path) - last.arg2)

\* every content buffer is empty and no byte-fetch has been counted
NothingFetched ==
    /\ \A i \in PhotoIds : fetchCount[i] = 0
    /\ \A p \in DOMAIN objects : objects[p].content = <<>>

\* a step that fills or changes the buffer of the photo at p, or counts a fetch
\* of it, is a read of p
OnlyReadFetches ==
    \A p \in DOMAIN objects :
        (/\ p \in DOMAIN objects'
         /\ objects[p].kind = "photo"
         /\ \/ objects'[p].content # objects[p].content
            \/ fetchCount'[objects[p].id] # fetchCount[objects[p].id])
            => (last'.op = "read" /\ last'.path = p)

\* C5: no byte-fetch happens during the crawl or in getattr, readdir or
\* open: every buffer is empty until the crawl is over, and afterwards only a
\* read of a photo changes that photo's buffer or fetch count.
C5_NoEagerFetch ==
    /\ [](~Operational => NothingFetched)
    /\ [][OnlyReadFetches]_vars

\* C5 witness: an open of a photo succeeded and its buffer is still empty
C5_Witness ==
    /\ LastOnPhoto("open")
    /\ last.res = "Ok"
    /\ objects[last.path].content = <<>>
    /\ fetchCount[objects[last.path].id] = 0

\* the bytes a read of (size, offset) returns from a buffer for a photo of
\* reported size L
Expected(content, L, size, offset) ==
    slice(content, offset, offset + Min(size, L - offset))

\* a failed fetch leaves the buffer empty and is returned to the read
FailureNotStored ==
    (LastOnPhoto("read") /\ last.fetched = "fail")
        => /\ last.res = "TransportError"
           /\ objects[last.path].content = <<>>

\* the read that follows a failed fetch of the same photo asks again, and
\* when the collaborator answers it returns the requested bytes
RetryAfterFailure ==
    (/\ LastOnPhoto("read")
     /\ last.fetched = "fail"
     /\ last'.op = "read"
     /\ last'.path = last.path
     /\ last'.res \notin {"EOVERFLOW", "EISDIR"})
        => /\ last'.fetched \in {"ok", "fail"}
           /\ last'.fetched = "ok" =>
                 /\ last'.res = "Ok"
                 /\ last'.data = Expected(objects'[last.path].content,
                                          objects[last.path].st_size,
                                          last'.arg1, last'.arg2)

\* C6: a failed byte-fetch leaves the buffer empty, is returned to the read
\* that triggered it, and the next read of the photo fetches again and, if
\* that succeeds, returns the requested bytes.
C6_FetchRetryable ==
    /\ []FailureNotStored
    /\ [][RetryAfterFailure]_vars

\* C6 witness: a read whose fetch failed
C6_Witness == LastOnPhoto("read") /\ last.fetched = "fail"

\* the access mode of open flags (O_ACCMODE is the two low bits)
AccessMode(flags) == flags % 4

WriteIntent(flags) == AccessMode(flags) \in {O_WRONLY, O_RDWR}

C8_OpenAlbumForWrite ==
    (LastOnAlbum("open") /\ WriteIntent(last.arg1)) => last.res = "EISDIR"

\* C9: readdir gives its caller NotFound for an absent path and NotADirectory
\* for a photo, never a listing.
C9_ListErrors ==
    LastIs("readdir") =>
        /\ last.path \notin DOMAIN objects => last.res = "ENOENT"
        /\ (last.path \in DOMAIN objects /\ objects[last.path].kind = "photo")
              => last.res = "ENOTDIR"

\* the children the collaborator reported for an album id: for the root the
\* curated, ordinary and shared albums, otherwise sub-albums then photos
RECURSIVE EntriesOf(_, _)
EntriesOf(jsons, type) ==
    IF jsons = <<>> THEN <<>>
    ELSE <<[name |-> title(Head(jsons)), type |-> type]>> \o EntriesOf(Tail(jsons), type)

CrawledEntries(id) ==
    LET top == srv.smartalbums \o srv.albums \o srv.shared_albums
    IN IF id = RootId /\ top # <<>>
       THEN EntriesOf(top, S_IFDIR)
       ELSE EntriesOf(album_json(id).albums, S_IFDIR)
            \o EntriesOf(album_json(id).photos, S_IFREG)

\* C10: readdir of an album yields one entry per child crawled for it,
\* sub-albums first and then photos in the collaborator's order, a sub-album
\* as a directory and a photo as a regular file.
C10_ListingMatchesCrawl ==
    LastOnAlbum("readdir") => last.data = CrawledEntries(objects[last.path].id)

\* the albums of the index, by path
AlbumPaths == {p \in DOMAIN objects : objects[p].kind = "album"}

\* C11: after the crawl every child path of every album is a key of the
\* index, and for every entry readdir yields, getattr of the path formed from
\* the listed path and the entry's name succeeds.
C11_IndexComplete ==
    /\ Operational =>
          \A p \in AlbumPaths :
              \A i \in 1..Len(objects[p].children_path) :
                  objects[p].children_path[i] \in DOMAIN objects
    /\ LastOnAlbum("readdir") =>
          \A i \in 1..Len(last.data) :
              getattr(join_path(last.path, last.data[i].name)).res = "Ok"

\* the path up to its last separator
Dirname(path) ==
    LET cut == CHOOSE k \in 1..Len(path) :
                   path[k] = SEP /\ \A j \in (k + 1)..Len(path) : path[j] # SEP
    IN IF cut = 1 THEN ROOT_PATH ELSE SubSeq(path, 1, cut - 1)

\* the proper ancestor paths of an absolute path
RECURSIVE Ancestors(_)
Ancestors(path) ==
    IF path = ROOT_PATH THEN {}
    ELSE {Dirname(path)} \cup Ancestors(Dirname(path))

\* C12: after the crawl every proper ancestor of every indexed path is
\* indexed and maps to an album.
C12_AncestorsAreAlbums ==
    Operational =>
        \A p \in DOMAIN objects :
            \A a \in Ancestors(p) : a \in DOMAIN objects /\ objects[a].kind = "album"

\* C13: whenever operations can be served, the root path maps to the
\* virtual root album, whatever the titles of the top-level albums.
C13_RootIsRootAlbum ==
    Operational =>
        /\ ROOT_PATH \in DOMAIN objects
        /\ objects[ROOT_PATH].kind = "album"
        /\ objects[ROOT_PATH].id = RootId
        /\ objects[ROOT_PATH].title = ROOT_PATH

\* C13 witness: a top-level album titled "/" was crawled and the root path
\* still maps to the virtual root, which lists that path as its child
C13_Witness ==
    /\ Operational
    /\ srv = ServerRootTitle
    /\ objects[ROOT_PATH].id = RootId
    /\ objects[ROOT_PATH].children_path = <<ROOT_PATH>>

\* an operation is served only when the crawl has run to its end without
\* any exception
ServedAfterFullCrawl ==
    last.op # "none" =>
        /\ phase = "operational"
        /\ err = None
        /\ stack = <<>>
        /\ ROOT_PATH \in DOMAIN objects

\* C14: a failure during the crawl aborts it for good; nothing is ever
\* served over a partly built index, every operation is served after the
\* crawl has completed.
C14_NoPartialMount ==
    /\ [](err # None => (phase = "aborted" /\ last.op = "none"))
    /\ []ServedAfterFullCrawl
    /\ [][phase = "aborted" => (phase' = "aborted" /\ last' = last)]_vars

\* C14 witness: get_album failed after part of the index had been built
C14_Witness ==
    /\ phase = "aborted"
    /\ err = "TransportError"
    /\ objects # NoObjects

\* what an object of the index reports, its buffer left out
Described(o) ==
    [kind |-> o.kind, id |-> o.id, title |-> o.title, children_path |-> o.children_path,
     quality |-> o.quality, st_size |-> o.st_size, st_mode |-> o.st_mode]

\* C15: once the crawl is over no operation, failed or not, changes the key
\* set of the index, the object a key maps to, an album's child list or an
\* object's size, kind and mode.
C15_IndexFrozen ==
    [][Operational =>
          /\ DOMAIN objects' = DOMAIN objects
          /\ \A p \in DOMAIN objects : Described(objects'[p]) = Described(objects[p])]_vars

\* C15 witness: a read fetched a payload shorter than the reported size, and
\* getattr still reports the size of the original
C15_Witness ==
    /\ LastOnPhoto("read")
    /\ last.fetched = "ok"
    /\ Len(objects[last.path].content) < objects[last.path].st_size
    /\ ReportedSize(last.path) = st_size(Photo10)
    /\ objects[last.path].id = Photo10.id

\* C17: a -q name of no tier is rejected with InvalidArgument before the
\* crawl issues any collaborator call.
C17_BadQualityRejectedEarly ==
    ~IsQualityName(quality) =>
        \/ phase = "init"
        \/ (phase = "aborted" /\ err = "InvalidArgument" /\ albumFetches = <<>>)

\* the children the collaborator reported for an album id, in crawl order,
\* each with the kind of object the crawl builds for it
Tagged(jsons, kind) == [i \in 1..Len(jsons) |-> [json |-> jsons[i], kind |-> kind]]

CrawledChildren(id) ==
    LET top == srv.smartalbums \o srv.albums \o srv.shared_albums
    IN IF id = RootId /\ top # <<>>
       THEN Tagged(top, "album")
       ELSE Tagged(album_json(id).albums, "album") \o Tagged(album_json(id).photos, "photo")

\* the path of a child of the album at path p
ChildPath(p, child) == join_path(p, title(child.json))

\* siblings i < j of the album at p whose titles yield the same path
Collide(p, i, j) ==
    LET c == CrawledChildren(objects[p].id)
    IN i < j /\ ChildPath(p, c[i]) = ChildPath(p, c[j])

C19_RootNeverFetched ==
    \A i \in 1..Len(albumFetches) : albumFetches[i] # RootId

\* the ids of the albums below an album id, one per occurrence, to a depth
RECURSIVE AlbumsBelow(_, _)
AlbumsBelow(jsons, depth) ==
    IF jsons = <<>> \/ depth = 0 THEN <<>>
    ELSE <<Head(jsons).id>>
         \o AlbumsBelow(album_json(Head(jsons).id).albums, depth - 1)
         \o AlbumsBelow(Tail(jsons), depth)

\* the non-root albums of the hierarchy, in the order of the crawl
NonRootAlbums ==
    AlbumsBelow(srv.smartalbums \o srv.albums \o srv.shared_albums, MaxDepth)

\* C20: a crawl that ends with the filesystem operational has issued exactly
\* one album-detail fetch per non-root album.
C20_OneFetchPerAlbum ==
    Operational => albumFetches = NonRootAlbums

\* a read that saw the buffer empty sends its own request when it moves on,
\* whatever other reads have done in between
EveryEmptyCheckFetches ==
    \A t \in Threads :
        (threads[t].pc = "call" /\ threads'[t].pc # "call")
            => /\ threads'[t].pc = "waiting"
               /\ requests'[objects[threads[t].path].id]
                      = requests[objects[threads[t].path].id] + 1

\* a read that starts on a photo with an empty buffer goes on to fetch even
\* while another read of the photo is fetching
NoMutualExclusion ==
    \A t \in Threads :
        (/\ threads[t].pc = "idle"
         /\ threads'[t].pc \notin {"idle", "done"}
         /\ Len(objects[threads'[t].path].content) = 0)
            => threads'[t].pc = "call"

\* C16: concurrent first reads of a photo race on fetch-and-populate: a
\* read that has seen the empty buffer fetches, with no lock and no second
\* look at the buffer, so two reads can both see it empty and the
\* collaborator then receives two byte-fetch requests for the photo.
C16_ConcurrentReadsRace ==
    /\ [][EveryEmptyCheckFetches]_vars
    /\ [][NoMutualExclusion]_vars

\* C16 witness: both threads saw the empty buffer of the same photo and two
\* requests for it are with the collaborator
C16_Witness ==
    /\ Operational
    /\ threads[1].pc = "waiting"
    /\ threads[2].pc = "waiting"
    /\ threads[1].path = threads[2].path
    /\ objects[threads[1].path].content = <<>>
    /\ requests[objects[threads[1].path].id] = 2

\* the payloads get_photos_archive has returned for the photo at path
Received(path) ==
    {threads[t].got[1] : t \in {u \in Threads : /\ threads[u].path = path
                                                /\ Len(threads[u].got) = 1}}

\* the buffer of every photo is empty or one whole payload of one fetch
BufferWhole ==
    \A p \in DOMAIN objects :
        objects[p].kind = "photo"
            => \/ objects[p].content = <<>>
               \/ objects[p].content \in Received(p)

\* a read that returned bytes returned its range of one whole payload
ReadsWhole ==
    \A t \in Threads :
        (threads[t].pc = "done" /\ threads[t].res = "Ok" /\ threads[t].data # <<>>)
            => \E b \in Received(threads[t].path) :
                  threads[t].data = slice(b, threads[t].lo, threads[t].hi)

\* C21: under every interleaving of concurrent reads of a photo, the
\* duplicate-fetch race included, the content buffer is empty or a complete
\* payload returned by one fetch, and every read that returns bytes returns
\* a slice of one complete payload, never of a partly populated buffer.
C21_BufferNeverTorn ==
    Operational => (BufferWhole /\ ReadsWhole)

\* C21 witness: the race happened, the two fetches returned different
\* payloads, and thread 1 returned bytes of the payload thread 2 received
C21_Witness ==
    /\ Operational
    /\ threads[1].pc = "done" /\ threads[1].res = "Ok"
    /\ threads[2].pc = "done" /\ threads[2].res = "Ok"
    /\ threads[1].path = threads[2].path
    /\ requests[objects[threads[1].path].id] = 2
    /\ Len(threads[1].got) = 1 /\ Len(threads[2].got) = 1
    /\ threads[1].got # threads[2].got
    /\ threads[1].data # <<>>
    /\ threads[1].data = slice(threads[2].got[1], threads[1].lo, threads[1].hi)
    /\ threads[1].data # slice(threads[1].got[1], threads[1].lo, threads[1].hi)

\* the path is listed: the index maps its parent path to an album whose
\* child list holds it
Listed(path) ==
    /\ Dirname(path) \in DOMAIN objects
    /\ objects[Dirname(path)].kind = "album"
    /\ \E i \in 1..Len(objects[Dirname(path)].children_path) :
          objects[Dirname(path)].children_path[i] = path

\* C22: after a successful crawl every key of the index other than the root
\* is in the child list of the album the index maps its parent path to, so
\* the index holds no entry that getattr, open and read resolve but no
\* listing from the root yields, sibling albums sharing a title included.
C22_NoOrphanEntries ==
    Operational => \A p \in (DOMAIN objects) \ {ROOT_PATH} : Listed(p)

====
